---- MODULE Spec2Model ----
(***************************************************************************)
(* Model of video_to_avif.py: the settings store (load_settings,           *)
(* save_settings), the two-pass conversion (convert_video) and the form    *)
(* handlers of VideoConverterApp that feed it (run_conversion,             *)
(* save_current_settings, browse_ffmpeg, browse_video, the format radio).  *)
(* Strings are TLA+ strings; f-strings are built with \o.                  *)
(***************************************************************************)
EXTENDS Naturals, Sequences, FiniteSets, TLC

\* ---------------------------------------------------------------- bounds
MaxEdits == 1       \* form edits (typing, radio, browse) in one behaviour
MaxCalls == 2       \* conversion invocations in one behaviour
MaxFsChanges == 1   \* changes of the file system made by the environment

\* ------------------------------------------------------------ form keys
AvifKeys == {"crf", "frame_rate_avif", "max_width_avif", "scale_filter_avif", "cpu_used"}

WebpKeys == {"output_quality_webp", "frame_rate_webp", "max_width_webp",
             "scale_filter_webp", "compression_level", "preset"}

\* keys of self.variables, setup_variables
VariableKeys == {"ffmpeg_path", "input_video_path", "format"} \cup AvifKeys \cup WebpKeys

\* the defaults dict of load_settings
defaults ==
  [k \in (VariableKeys \ {"input_video_path"}) \cup {"last_video_path"} |->
     CASE k = "ffmpeg_path" -> ""
       [] k = "last_video_path" -> "/home/user"
       [] k = "format" -> "AVIF"
       [] k = "crf" -> "30"
       [] k = "frame_rate_avif" -> "16"
       [] k = "max_width_avif" -> "720"
       [] k = "scale_filter_avif" -> "lanczos"
       [] k = "cpu_used" -> "8"
       [] k = "output_quality_webp" -> "30"
       [] k = "frame_rate_webp" -> "15"
       [] k = "max_width_webp" -> "720"
       [] k = "scale_filter_webp" -> "lanczos"
       [] k = "compression_level" -> "6"
       [] k = "preset" -> "default"]

\* ------------------------------------------------- values the inputs take
FfmpegPaths == {"", "/opt/ffmpeg"}

VideoPaths == {"", "/v/clip.mp4"}

Formats == {"AVIF", "WebP"}

\* what the user can type or pick for a parameter: its default or another value
EntryValues(k) ==
  CASE k = "crf" -> {"30", "63", "50%"}
    [] k = "frame_rate_avif" -> {"16", "24"}
    [] k = "max_width_avif" -> {"720", "480"}
    [] k = "scale_filter_avif" -> {"lanczos", "bicubic"}
    [] k = "cpu_used" -> {"8", "4"}
    [] k = "output_quality_webp" -> {"30", "40"}
    [] k = "frame_rate_webp" -> {"15", "10"}
    [] k = "max_width_webp" -> {"720", "320"}
    [] k = "scale_filter_webp" -> {"lanczos", "bilinear"}
    [] k = "compression_level" -> {"6", "5"}
    [] k = "preset" -> {"default", "photo"}
    [] k = "ffmpeg_path" -> FfmpegPaths

ExitCodes == {0, 1, 2}

StderrTexts == {"Invalid argument", "Conversion failed!"}

OsErrorTexts == {"[Errno 13] Permission denied"}

\* --------------------------------------------------------------- pathlib
\* Path(p).parent, .stem and .suffix for the paths of VideoPaths
PathParts(p) ==
  CASE p = "/v/clip.mp4" -> [parent |-> "/v", stem |-> "clip", suffix |-> ".mp4"]
    [] p = "/v/clip.avif" -> [parent |-> "/v", stem |-> "clip", suffix |-> ".avif"]
    [] p = "/v/clip.webp" -> [parent |-> "/v", stem |-> "clip", suffix |-> ".webp"]
    [] OTHER -> [parent |-> "", stem |-> "", suffix |-> ""]

\* Path(p).name
PathName(p) == PathParts(p).stem \o PathParts(p).suffix

\* str(Path(p).with_suffix(s))
WithSuffix(p, s) == PathParts(p).parent \o "/" \o PathParts(p).stem \o s

IsFile_always(f, p) == TRUE

\* Path(p).is_file() in file system f; Path('') is '.', a directory
IsFile(f, p) == p \in DOMAIN f /\ f[p] = "file"

\* ------------------------------------------------------ settings store
NoSection == [k \in {} |-> ""]

\* BasicInterpolation.before_set of ConfigParser, run by config[section] = dict:
\* a value with a '%' that starts neither '%%' nor '%(name)s' is refused
InvalidInterpolation(v) == v = "50%"

\* BasicInterpolation.before_get of ConfigParser, run by config.get: the raw
\* text of the file with '%%' read as '%'
Interpolated(raw) == IF raw = "50%%" THEN "50%" ELSE raw

\* load_settings: section is the raw [Settings] section of the file, NoSection
\* when the file or the section is missing
load_settings(section) ==
  IF DOMAIN section = {} THEN defaults
  ELSE [k \in DOMAIN defaults |->
          IF k \in DOMAIN section THEN Interpolated(section[k]) ELSE defaults[k]]

\* save_settings raises ValueError on config[CONFIG_SECTION] = settings,
\* before the file is opened
SaveRaises(s) == \E k \in DOMAIN s : InvalidInterpolation(s[k])

\* save_settings: the section written to the file, values as raw text
save_settings(s) == s

\* the loop of save_current_settings: the new self.settings
UpdatedSettings_all(s, v) ==
  [k \in DOMAIN s \cup DOMAIN v |-> IF k \in DOMAIN v THEN v[k] ELSE s[k]]

UpdatedSettings(s, v) ==
  [k \in DOMAIN s \cup (DOMAIN v \ {"input_video_path"}) |->
     IF k \in DOMAIN v /\ k # "input_video_path" THEN v[k] ELSE s[k]]

\* ------------------------------------------------- convert_video, lists
scale_filter_webp_only(format_type, params) == params["scale_filter_webp"]

scale_filter(format_type, params) ==
  IF format_type = "AVIF" THEN params["scale_filter_avif"] ELSE params["scale_filter_webp"]

max_width(format_type, params) ==
  IF format_type = "AVIF" THEN params["max_width_avif"] ELSE params["max_width_webp"]

frame_rate(format_type, params) ==
  IF format_type = "AVIF" THEN params["frame_rate_avif"] ELSE params["frame_rate_webp"]

encoder_config_swapped(format_type, params) ==
  IF format_type = "AVIF"
  THEN [cv |-> "libaom-av1",
        param1_key |-> "-cpu-used", param1_val |-> params["cpu_used"],
        param2_key |-> "-crf", param2_val |-> params["crf"],
        extra_args |-> <<"-b:v", "0", "-pix_fmt", "yuv420p">>]
  ELSE [cv |-> "libwebp",
        param1_key |-> "-compression_level", param1_val |-> params["compression_level"],
        param2_key |-> "-quality", param2_val |-> params["output_quality_webp"],
        extra_args |-> <<"-preset", params["preset"]>>]

encoder_config(format_type, params) ==
  IF format_type = "AVIF"
  THEN [cv |-> "libaom-av1",
        param1_key |-> "-crf", param1_val |-> params["crf"],
        param2_key |-> "-cpu-used", param2_val |-> params["cpu_used"],
        extra_args |-> <<"-b:v", "0", "-pix_fmt", "yuv420p">>]
  ELSE [cv |-> "libwebp",
        param1_key |-> "-quality", param1_val |-> params["output_quality_webp"],
        param2_key |-> "-compression_level", param2_val |-> params["compression_level"],
        extra_args |-> <<"-preset", params["preset"]>>]

first_pass(input_file, format_type, params, ffmpeg_path) ==
  <<ffmpeg_path,
    "-i", input_file,
    "-vf", "scale=" \o max_width(format_type, params) \o ":-2:flags=" \o scale_filter(format_type, params),
    "-r", frame_rate(format_type, params),
    "-c:v", encoder_config(format_type, params).cv,
    encoder_config(format_type, params).param1_key, encoder_config(format_type, params).param1_val,
    encoder_config(format_type, params).param2_key, encoder_config(format_type, params).param2_val>>
  \o encoder_config(format_type, params).extra_args
  \o <<"-pass", "1", "-f", "null", "-">>

\* a second pass that puts the frame rate before the scale filter
second_pass_reordered(input_file, output_file, format_type, params, ffmpeg_path) ==
  <<ffmpeg_path,
    "-i", input_file,
    "-r", frame_rate(format_type, params),
    "-vf", "scale=" \o max_width(format_type, params) \o ":-2:flags=" \o scale_filter(format_type, params),
    "-c:v", encoder_config(format_type, params).cv,
    encoder_config(format_type, params).param1_key, encoder_config(format_type, params).param1_val,
    encoder_config(format_type, params).param2_key, encoder_config(format_type, params).param2_val>>
  \o encoder_config(format_type, params).extra_args
  \o <<"-pass", "2", "-loop", "0", output_file>>

second_pass(input_file, output_file, format_type, params, ffmpeg_path) ==
  <<ffmpeg_path,
    "-i", input_file,
    "-vf", "scale=" \o max_width(format_type, params) \o ":-2:flags=" \o scale_filter(format_type, params),
    "-r", frame_rate(format_type, params),
    "-c:v", encoder_config(format_type, params).cv,
    encoder_config(format_type, params).param1_key, encoder_config(format_type, params).param1_val,
    encoder_config(format_type, params).param2_key, encoder_config(format_type, params).param2_val>>
  \o encoder_config(format_type, params).extra_args
  \o <<"-pass", "2", "-loop", "0", output_file>>

\* --------------------------------------------- convert_video, execution
\* check=True of subprocess.run: a non-zero return code raises
check_lenient(returncode) == FALSE

check(returncode) == returncode # 0

NoRun == [status |-> "none", code |-> 0, text |-> ""]

\* what subprocess.run can do when it launches path in file system f: a child
\* runs, the launch fails (a file that cannot be executed; '' and directories
\* give PermissionError), or the executable is missing
LaunchStatuses(f, path) ==
  IF IsFile(f, path) THEN {"spawned", "oserror"}
  ELSE IF path \in DOMAIN f THEN {"notfound"}
  ELSE {"oserror"}

\* a run whose launch error is not raised
Raised_swallow(r) ==
  CASE r.status = "notfound" -> "FileNotFoundError"
    [] r.status = "exited" /\ check(r.code) -> "CalledProcessError"
    [] OTHER -> "None"

\* the exception subprocess.run raises for a run result, "None" when it returns
Raised(r) ==
  CASE r.status = "notfound" -> "FileNotFoundError"
    [] r.status = "oserror" -> "OSError"
    [] r.status = "exited" /\ check(r.code) -> "CalledProcessError"
    [] OTHER -> "None"

\* the except clauses of convert_video: the dialogue each one shows
except_generic_first(exc, r, input_file, ffmpeg_path) ==
  IF exc = "CalledProcessError"
  THEN [box |-> "showerror", title |-> "Conversion Error",
        message |-> "Error converting " \o PathName(input_file) \o ": " \o r.text]
  ELSE [box |-> "showerror", title |-> "Unknown Error",
        message |-> "An unexpected error occurred: " \o r.text]

\* a CalledProcessError clause that formats str(e) in place of e.stderr
except_str_of_error(exc, r, input_file, ffmpeg_path) ==
  CASE exc = "CalledProcessError" ->
         [box |-> "showerror", title |-> "Conversion Error",
          message |-> "Error converting " \o PathName(input_file)
                      \o ": Command returned non-zero exit status"]
    [] exc = "FileNotFoundError" ->
         [box |-> "showerror", title |-> "Error",
          message |-> "Error: ffmpeg not found at " \o ffmpeg_path
                      \o ". Please ensure the path is correct."]
    [] OTHER ->
         [box |-> "showerror", title |-> "Unknown Error",
          message |-> "An unexpected error occurred: " \o r.text]

except_clause(exc, r, input_file, ffmpeg_path) ==
  CASE exc = "CalledProcessError" ->
         [box |-> "showerror", title |-> "Conversion Error",
          message |-> "Error converting " \o PathName(input_file) \o ": " \o r.text]
    [] exc = "FileNotFoundError" ->
         [box |-> "showerror", title |-> "Error",
          message |-> "Error: ffmpeg not found at " \o ffmpeg_path
                      \o ". Please ensure the path is correct."]
    [] OTHER ->
         [box |-> "showerror", title |-> "Unknown Error",
          message |-> "An unexpected error occurred: " \o r.text]

\* the dialogue of the success path
success_box(input_file, output_file) ==
  [box |-> "showinfo", title |-> "Success",
   message |-> "Successfully converted " \o PathName(input_file)
               \o " to " \o PathName(output_file)]

\* where convert_video goes when the run of pass p has raised or returned
after_run_retry(p, raised) ==
  IF raised THEN (IF p = 1 THEN "Pass1Running" ELSE "Pass2Running")
  ELSE IF p = 1 THEN "Pass2Running" ELSE "Succeeded"

after_run(p, raised) ==
  IF raised THEN (IF p = 1 THEN "Pass1Failed" ELSE "Pass2Failed")
  ELSE IF p = 1 THEN "Pass2Running" ELSE "Succeeded"

\* ------------------------------------------------------------- the state
VARIABLES
  variables,    \* self.variables: key -> the StringVar's value
  settings,     \* self.settings
  ini,          \* the [Settings] section of video_converter_settings.ini
  shown,        \* the widget family update_format_fields leaves on the grid
  cursor,       \* master's cursor
  fs,           \* the file system: path -> "file" or "missing"
  rc_pc,        \* where the running handler or call is
  saves,        \* save_settings calls of the current invocation
  conv_state,   \* position of convert_video in its two-pass sequence
  call,         \* arguments and locals of the convert_video call
  resolved,     \* whether ffmpeg_path was a file when convert_video was entered
  running,      \* launch status of the subprocess.run in progress
  result,       \* pass -> result of its subprocess.run
  launched,     \* pass -> subprocess.run calls of the current invocation
  spawned,      \* child processes started in the current invocation
  ret,          \* return value of convert_video
  dialogs,      \* messagebox dialogues of the current invocation, in order
  prev,         \* the previous convert_video call that ended in CalledProcessError
  edits, calls, fs_changes

vars == <<variables, settings, ini, shown, cursor, fs, rc_pc, saves,
          conv_state, call, resolved, running, result, launched, spawned, ret,
          dialogs, prev, edits, calls, fs_changes>>

gui_vars == <<variables, settings, ini, shown>>

conv_vars == <<conv_state, call, resolved, running, result, launched, spawned, ret, prev>>

NoCall == [input_file |-> "", output_file |-> "", format_type |-> "", ffmpeg_path |-> "",
           params |-> NoSection, first_pass |-> <<>>, second_pass |-> <<>>]

NoPrev == [failed_pass |-> 0, text |-> "", input_file |-> "", ret |-> "None", dialogs |-> <<>>]

\* setup_variables: the form starts from the loaded settings
InitialVariables(s) ==
  [k \in VariableKeys |-> IF k = "input_video_path" THEN "" ELSE s[k]]

\* the sections a settings file left by an earlier session can hold
StoredSections ==
  {NoSection,
   [k \in {"format", "ffmpeg_path"} |-> IF k = "format" THEN "WebP" ELSE "/opt/ffmpeg"],
   [k \in {"ffmpeg_path"} |-> "/opt/ffmpeg"],
   [k \in {"crf", "ffmpeg_path"} |-> IF k = "crf" THEN "50%%" ELSE "/opt/ffmpeg"]}

Init ==
  /\ ini \in StoredSections
  /\ settings = load_settings(ini)
  /\ variables = InitialVariables(settings)
  /\ shown = variables["format"]
  /\ cursor = ""
  /\ fs \in [{"/opt/ffmpeg", "/v/clip.mp4"} -> {"file", "missing"}]
  /\ rc_pc = "ready"
  /\ saves = 0
  /\ conv_state = "NoCall"
  /\ call = NoCall
  /\ resolved = FALSE
  /\ running = "none"
  /\ result = [p \in {1, 2} |-> NoRun]
  /\ launched = [p \in {1, 2} |-> 0]
  /\ spawned = 0
  /\ ret = "None"
  /\ dialogs = <<>>
  /\ prev = NoPrev
  /\ edits = 0
  /\ calls = 0
  /\ fs_changes = 0

\* ---------------------------------------------------------- form actions
\* the user types into an Entry or picks from a Combobox
EditEntry(k, v) ==
  /\ rc_pc = "ready" /\ edits < MaxEdits
  /\ k \in AvifKeys \cup WebpKeys \cup {"ffmpeg_path"}
  /\ v \in EntryValues(k) /\ v # variables[k]
  /\ variables' = [variables EXCEPT ![k] = v]
  /\ edits' = edits + 1
  /\ UNCHANGED <<settings, ini, shown, cursor, fs, rc_pc, saves, dialogs,
                 calls, fs_changes>>
  /\ UNCHANGED conv_vars

\* update_format_fields: only the selected format's widgets stay on the grid
update_format_fields(selected_format) ==
  IF selected_format = "AVIF" THEN "AVIF"
  ELSE IF selected_format = "WebP" THEN "WebP" ELSE "none"

\* a format Radiobutton is chosen; the write trace runs format_change_callback
SelectFormat(f) ==
  /\ rc_pc = "ready" /\ edits < MaxEdits
  /\ f \in Formats /\ f # variables["format"]
  /\ variables' = [variables EXCEPT !["format"] = f]
  /\ shown' = update_format_fields(f)
  /\ edits' = edits + 1
  /\ UNCHANGED <<settings, ini, cursor, fs, rc_pc, saves, dialogs,
                 calls, fs_changes>>
  /\ UNCHANGED conv_vars

\* browse_ffmpeg: filepath is what the dialogue returns, "" when cancelled
browse_ffmpeg(filepath) ==
  /\ rc_pc = "ready" /\ edits < MaxEdits
  /\ filepath \in FfmpegPaths
  /\ variables' = IF filepath # "" THEN [variables EXCEPT !["ffmpeg_path"] = filepath]
                  ELSE variables
  /\ edits' = edits + 1
  /\ UNCHANGED <<settings, ini, shown, cursor, fs, rc_pc, saves, dialogs,
                 calls, fs_changes>>
  /\ UNCHANGED conv_vars

\* browse_video: filepath is what the dialogue returns, "" when cancelled
browse_video(filepath) ==
  /\ rc_pc = "ready" /\ edits < MaxEdits
  /\ filepath \in VideoPaths
  /\ IF filepath # ""
     THEN /\ variables' = [variables EXCEPT !["input_video_path"] = filepath]
          /\ settings' = [settings EXCEPT !["last_video_path"] = PathParts(filepath).parent]
     ELSE UNCHANGED <<variables, settings>>
  /\ edits' = edits + 1
  /\ UNCHANGED <<ini, shown, cursor, fs, rc_pc, saves, dialogs,
                 calls, fs_changes>>
  /\ UNCHANGED conv_vars

\* ------------------------------------------------------- run_conversion
\* the state convert_video starts from, and the lists it builds on entry
EnterConvertVideo(input_file, output_file, format_type, params, ffmpeg_path) ==
  /\ call' = [input_file |-> input_file, output_file |-> output_file,
              format_type |-> format_type, ffmpeg_path |-> ffmpeg_path,
              params |-> params,
              first_pass |-> first_pass(input_file, format_type, params, ffmpeg_path),
              second_pass |-> second_pass(input_file, output_file, format_type, params,
                                          ffmpeg_path)]
  /\ conv_state' = "Idle"
  /\ resolved' = IsFile(fs, ffmpeg_path)

\* the button is pressed: save_current_settings runs first; a ValueError of
\* save_settings leaves run_conversion at once
run_conversion ==
  /\ rc_pc = "ready" /\ calls < MaxCalls
  /\ calls' = calls + 1
  /\ settings' = UpdatedSettings(settings, variables)
  /\ IF SaveRaises(settings')
     THEN ini' = ini /\ saves' = 0 /\ rc_pc' = "raised"
     ELSE ini' = save_settings(settings') /\ saves' = 1 /\ rc_pc' = "check_ffmpeg"
  /\ dialogs' = <<>>
  /\ conv_state' = "NoCall" /\ call' = NoCall /\ resolved' = FALSE
  /\ running' = "none" /\ result' = [p \in {1, 2} |-> NoRun]
  /\ launched' = [p \in {1, 2} |-> 0] /\ spawned' = 0 /\ ret' = "None"
  /\ UNCHANGED <<variables, shown, cursor, fs, prev, edits, fs_changes>>

\* if not Path(ffmpeg_path).is_file(): showerror and return
check_ffmpeg ==
  /\ rc_pc = "check_ffmpeg"
  /\ IF ~IsFile(fs, variables["ffmpeg_path"])
     THEN /\ dialogs' = Append(dialogs,
               [box |-> "showerror", title |-> "Validation Error",
                message |-> "Please provide a valid path to the FFmpeg executable."])
          /\ rc_pc' = "return"
     ELSE /\ rc_pc' = "check_input"
          /\ UNCHANGED dialogs
  /\ UNCHANGED <<cursor, fs, saves, edits, calls, fs_changes>>
  /\ UNCHANGED gui_vars
  /\ UNCHANGED conv_vars

\* if not Path(input_video_path).is_file(): showerror and return; otherwise
\* the output path is derived and convert_video is called under the wait cursor
check_input ==
  /\ rc_pc = "check_input"
  /\ IF ~IsFile(fs, variables["input_video_path"])
     THEN /\ dialogs' = Append(dialogs,
               [box |-> "showerror", title |-> "Validation Error",
                message |-> "Please select a valid input video file."])
          /\ rc_pc' = "return"
          /\ UNCHANGED <<cursor, conv_state, call, resolved>>
     ELSE /\ EnterConvertVideo(variables["input_video_path"],
               WithSuffix(variables["input_video_path"],
                          IF variables["format"] = "AVIF" THEN ".avif" ELSE ".webp"),
               variables["format"], variables, variables["ffmpeg_path"])
          /\ cursor' = "wait"
          /\ rc_pc' = "convert"
          /\ UNCHANGED dialogs
  /\ UNCHANGED <<fs, saves, edits, calls, fs_changes, running, result, launched,
                 spawned, ret, prev>>
  /\ UNCHANGED gui_vars

OtherValue(k) == CHOOSE v \in EntryValues(k) : v # defaults[k] /\ ~InvalidInterpolation(v)

\* the bundles a direct caller of convert_video passes
Bundles ==
  {InitialVariables(defaults)}
  \cup {[k \in VariableKeys |->
          IF k \in AvifKeys \cup WebpKeys
          THEN OtherValue(k)
          ELSE InitialVariables(defaults)[k]]}

\* convert_video called by another module, with arguments of its choice; the
\* call neither reads nor writes the form, so it is taken from unedited forms
convert_video(input_file, output_file, format_type, params, ffmpeg_path) ==
  /\ rc_pc = "ready" /\ calls < MaxCalls /\ edits = 0
  /\ calls' = calls + 1
  /\ EnterConvertVideo(input_file, output_file, format_type, params, ffmpeg_path)
  /\ rc_pc' = "direct"
  /\ saves' = 0
  /\ dialogs' = <<>>
  /\ running' = "none" /\ result' = [p \in {1, 2} |-> NoRun]
  /\ launched' = [p \in {1, 2} |-> 0] /\ spawned' = 0 /\ ret' = "None"
  /\ UNCHANGED <<cursor, fs, prev, edits, fs_changes>>
  /\ UNCHANGED gui_vars

\* ----------------------------------------------- the body of convert_video
PassOf(state) == IF state = "Pass1Running" THEN 1 ELSE 2

\* subprocess.run(...) is called for pass p: the launch is attempted
Launch(p, status) ==
  /\ status \in LaunchStatuses(fs, call.ffmpeg_path)
  /\ running' = status
  /\ launched' = [launched EXCEPT ![p] = @ + 1]
  /\ spawned' = IF status = "spawned" THEN spawned + 1 ELSE spawned

\* subprocess.run(first_pass, check=True, ...) is called
start_first_pass ==
  /\ conv_state = "Idle"
  /\ \E status \in {"spawned", "oserror", "notfound"} : Launch(1, status)
  /\ conv_state' = "Pass1Running"
  /\ UNCHANGED <<cursor, fs, rc_pc, saves, dialogs, edits, calls, fs_changes,
                 call, resolved, result, ret, prev>>
  /\ UNCHANGED gui_vars

\* subprocess.run of the running pass returns or raises, with result r;
\* convert_video then runs up to its next subprocess.run or to its return
run_ends(r) ==
  /\ conv_state \in {"Pass1Running", "Pass2Running"}
  /\ \/ running = "spawned" /\ r.status = "exited"
        /\ r.code \in ExitCodes
        /\ r.text \in (IF r.code = 0 THEN {""} ELSE StderrTexts)
     \/ running = "oserror" /\ r.status = "oserror" /\ r.code = 0
        /\ r.text \in OsErrorTexts
     \/ running = "notfound" /\ r = [status |-> "notfound", code |-> 0, text |-> ""]
  /\ result' = [result EXCEPT ![PassOf(conv_state)] = r]
  /\ conv_state' = after_run(PassOf(conv_state), Raised(r) # "None")
  /\ IF conv_state' \in {"Pass1Running", "Pass2Running"}
     THEN /\ \E status \in {"spawned", "oserror", "notfound"} :
                Launch(PassOf(conv_state'), status)
          /\ UNCHANGED <<dialogs, ret>>
     ELSE /\ running' = "none"
          /\ UNCHANGED <<launched, spawned>>
          /\ IF Raised(r) = "None"
             THEN /\ dialogs' = Append(dialogs, success_box(call.input_file, call.output_file))
                  /\ ret' = "True"
             ELSE /\ dialogs' = Append(dialogs,
                        except_clause(Raised(r), r, call.input_file, call.ffmpeg_path))
                  /\ ret' = "False"
  /\ UNCHANGED <<cursor, fs, rc_pc, saves, edits, calls, fs_changes,
                 call, resolved, prev>>
  /\ UNCHANGED gui_vars

RunResults == [status : {"exited", "oserror", "notfound"}, code : ExitCodes,
               text : StderrTexts \cup OsErrorTexts \cup {""}]

Terminal == {"Pass1Failed", "Pass2Failed", "Succeeded"}

FailedPass == IF conv_state = "Pass1Failed" THEN 1
              ELSE IF conv_state = "Pass2Failed" THEN 2 ELSE 0

\* the locals of a handler or call go out of scope when it returns
ClearLocals ==
  /\ saves' = 0 /\ dialogs' = <<>>
  /\ conv_state' = "NoCall" /\ call' = NoCall /\ resolved' = FALSE
  /\ running' = "none" /\ result' = [p \in {1, 2} |-> NoRun]
  /\ launched' = [p \in {1, 2} |-> 0] /\ spawned' = 0 /\ ret' = "None"

\* convert_video has returned: run_conversion's finally restores the cursor
convert_returns ==
  /\ rc_pc \in {"convert", "direct"}
  /\ conv_state \in Terminal
  /\ cursor' = IF rc_pc = "convert" THEN "" ELSE cursor
  /\ rc_pc' = "ready"
  /\ prev' = IF FailedPass # 0 /\ Raised(result[FailedPass]) = "CalledProcessError"
             THEN [failed_pass |-> FailedPass, text |-> result[FailedPass].text,
                   input_file |-> call.input_file, ret |-> ret, dialogs |-> dialogs]
             ELSE prev
  /\ ClearLocals
  /\ UNCHANGED <<fs, edits, calls, fs_changes>>
  /\ UNCHANGED gui_vars

\* run_conversion returns after a failed validation, or is left by the
\* exception of save_settings
validation_returns ==
  /\ rc_pc \in {"return", "raised"}
  /\ rc_pc' = "ready"
  /\ ClearLocals
  /\ UNCHANGED <<cursor, fs, prev, edits, calls, fs_changes>>
  /\ UNCHANGED gui_vars

\* ---------------------------------------------------------- environment
\* a file appears or disappears (another program, an unmounted volume)
FsChange(path, kind) ==
  /\ fs_changes < MaxFsChanges
  /\ path \in DOMAIN fs /\ kind \in {"file", "missing"} /\ fs[path] # kind
  /\ fs' = [fs EXCEPT ![path] = kind]
  /\ fs_changes' = fs_changes + 1
  /\ UNCHANGED <<cursor, rc_pc, saves, dialogs, edits, calls>>
  /\ UNCHANGED gui_vars
  /\ UNCHANGED conv_vars

Next ==
  \/ \E k \in AvifKeys \cup WebpKeys \cup {"ffmpeg_path"} :
       \E v \in EntryValues(k) : EditEntry(k, v)
  \/ \E f \in Formats : SelectFormat(f)
  \/ \E p \in FfmpegPaths : browse_ffmpeg(p)
  \/ \E p \in VideoPaths : browse_video(p)
  \/ run_conversion
  \/ check_ffmpeg
  \/ check_input
  \/ \E i \in VideoPaths \ {""}, f \in Formats, b \in Bundles, e \in FfmpegPaths :
       convert_video(i, WithSuffix(i, IF f = "AVIF" THEN ".avif" ELSE ".webp"), f, b, e)
  \/ start_first_pass
  \/ \E r \in RunResults : run_ends(r)
  \/ convert_returns
  \/ validation_returns
  \/ \E path \in {"/opt/ffmpeg", "/v/clip.mp4"}, kind \in {"file", "missing"} :
       FsChange(path, kind)

Spec == Init /\ [][Next]_vars

\* ================================================================ claims
\* the result kinds of the specification, read off the dialogue's title
ResultKind(d) ==
  CASE d.title = "Success" -> "Success"
    [] d.title = "Conversion Error" -> "EncoderFailed"
    [] d.title = "Error" -> "EncoderNotFound"
    [] d.title = "Unknown Error" -> "UnexpectedError"
    [] OTHER -> "ValidationError"

ExitedNonZero(r) == r.status = "exited" /\ r.code # 0

ExitedZero(r) == r.status = "exited" /\ r.code = 0

ConversionErrorBox(text) ==
  [box |-> "showerror", title |-> "Conversion Error",
   message |-> "Error converting clip.mp4: " \o text]

\* C1: when pass 1 exits with a non-zero code, pass 2 is never launched (the
\* runner has been called exactly once) and the call ends with the
\* encoder-failed outcome carrying the stderr of pass 1; pass 2 is launched
\* only after pass 1 has exited with status 0.
C1_Pass1FailureStopsPipeline ==
  /\ ExitedNonZero(result[1]) =>
       /\ launched = [p \in {1, 2} |-> IF p = 1 THEN 1 ELSE 0]
       /\ conv_state = "Pass1Failed"
       /\ ret = "False"
       /\ dialogs = <<ConversionErrorBox(result[1].text)>>
       /\ ResultKind(dialogs[1]) = "EncoderFailed"
  /\ launched[2] > 0 => ExitedZero(result[1])
  /\ conv_state \in {"Pass2Running", "Pass2Failed", "Succeeded"} => ExitedZero(result[1])

C1_Witness ==
  conv_state = "Pass1Failed" /\ result[1].status = "exited" /\ result[1].code = 2
  /\ launched[1] = 1

\* C2 as stated: the outcome of a pass-2 failure carries the pass number, so it
\* differs from the outcome of a pass-1 failure with the same stderr text.
C2_PassNumberDistinguishes ==
  (conv_state = "Pass2Failed" /\ ExitedNonZero(result[2])
   /\ prev.failed_pass = 1 /\ prev.text = result[2].text)
  => <<prev.ret, prev.dialogs>> # <<ret, dialogs>>

\* C2 amended: when pass 1 exits 0 and pass 2 exits non-zero, convert_video
\* returns False after two runner calls and shows the Conversion Error
\* dialogue with the stderr of pass 2; the outcome carries no pass number: it
\* equals the outcome of a pass-1 failure on the same input with the same stderr.
C2_Pass2FailureOutcome ==
  ExitedNonZero(result[2]) =>
    /\ ExitedZero(result[1])
    /\ conv_state = "Pass2Failed"
    /\ launched = [p \in {1, 2} |-> 1]
    /\ ret = "False"
    /\ dialogs = <<ConversionErrorBox(result[2].text)>>
    /\ ResultKind(dialogs[1]) = "EncoderFailed"
    /\ (prev.failed_pass = 1 /\ prev.text = result[2].text
        /\ prev.input_file = call.input_file)
       => (prev.ret = ret /\ prev.dialogs = dialogs)

C2_Witness ==
  conv_state = "Pass2Failed" /\ ExitedNonZero(result[2])
  /\ prev.failed_pass = 1 /\ prev.text = result[2].text

\* C3: an executable-not-found at pass 1 or at pass 2 ends the call with the
\* encoder-not-found outcome in both cases; at pass 1, pass 2 is not launched.
C3_NotFoundAtEitherPass ==
  /\ (result[1].status = "notfound" \/ result[2].status = "notfound") =>
       /\ conv_state \in {"Pass1Failed", "Pass2Failed"}
       /\ ret = "False"
       /\ Len(dialogs) = 1
       /\ ResultKind(dialogs[1]) = "EncoderNotFound"
       /\ dialogs[1].message = "Error: ffmpeg not found at " \o call.ffmpeg_path
                               \o ". Please ensure the path is correct."
  /\ result[1].status = "notfound" => launched[2] = 0 /\ conv_state = "Pass1Failed"

C3_Witness ==
  conv_state = "Pass2Failed" /\ result[2].status = "notfound" /\ launched[2] = 1

\* C4 as stated: when the encoder path does not resolve on entry, convert
\* attempts neither pass.
C4_NoAttemptWhenUnresolved ==
  (conv_state # "NoCall" /\ ~resolved) => (launched[1] = 0 /\ launched[2] = 0)

NotAFile(p) == p \notin DOMAIN fs \/ fs[p] # "file"

FfmpegValidationBox ==
  [box |-> "showerror", title |-> "Validation Error",
   message |-> "Please provide a valid path to the FFmpeg executable."]

\* C4 amended: when the ffmpeg path is not a file as run_conversion checks it,
\* run_conversion shows the validation error and returns without calling
\* convert_video, so neither pass is attempted; convert_video itself makes no
\* check: it always attempts pass 1, and when the executable is missing at
\* that launch the call ends encoder-not-found with pass 2 not attempted.
C4_ValidationGuardsConvert ==
  /\ [][/\ (rc_pc = "check_ffmpeg" /\ rc_pc' # rc_pc /\ NotAFile(variables["ffmpeg_path"]))
           => /\ rc_pc' = "return"
              /\ dialogs' = <<FfmpegValidationBox>>
              /\ conv_state' = "NoCall"
              /\ launched' = [p \in {1, 2} |-> 0]
        /\ (rc_pc = "check_ffmpeg" /\ rc_pc' # rc_pc /\ ~NotAFile(variables["ffmpeg_path"]))
           => rc_pc' = "check_input" /\ dialogs' = <<>>
        /\ (conv_state = "Idle" /\ conv_state' # "Idle")
           => /\ conv_state' = "Pass1Running" /\ launched'[1] = 1
              /\ (running' = "notfound") <=>
                   (call.ffmpeg_path \in DOMAIN fs /\ fs[call.ffmpeg_path] = "missing")]_vars
  /\ [](/\ rc_pc = "return" => (conv_state = "NoCall" /\ launched[1] = 0 /\ spawned = 0)
        /\ (conv_state = "Pass1Failed" /\ result[1].status = "notfound")
           => /\ launched = [p \in {1, 2} |-> IF p = 1 THEN 1 ELSE 0]
              /\ ret = "False"
              /\ ResultKind(dialogs[1]) = "EncoderNotFound")

C4_Witness ==
  rc_pc = "direct" /\ ~resolved /\ conv_state = "Pass1Failed"
  /\ result[1].status = "notfound" /\ launched[1] = 1

\* C5: the two token lists agree position by position from the executable
\* path through the fixed extras and differ only in their five-token tails.
C5_PassesShareEncodingTokens ==
  conv_state # "NoCall" =>
    LET f == call.first_pass
        s == call.second_pass
        n == Len(f)
    IN /\ Len(s) = n
       /\ n > 5
       /\ \A i \in 1..(n - 5) : f[i] = s[i]
       /\ SubSeq(f, n - 4, n) = <<"-pass", "1", "-f", "null", "-">>
       /\ SubSeq(s, n - 4, n) = <<"-pass", "2", "-loop", "0", call.output_file>>

C5_Witness ==
  conv_state = "Idle" /\ call.format_type = "WebP" /\ call.params["preset"] = "photo"
  /\ Len(call.second_pass) = 20

\* C6: the token lists equal the reference sequence of the selected format.
C6_ReferenceTokenLists ==
  conv_state # "NoCall" =>
    LET b == call.params
        head == IF call.format_type = "AVIF"
                THEN <<call.ffmpeg_path, "-i", call.input_file,
                       "-vf", "scale=" \o b["max_width_avif"] \o ":-2:flags="
                              \o b["scale_filter_avif"],
                       "-r", b["frame_rate_avif"], "-c:v", "libaom-av1",
                       "-crf", b["crf"], "-cpu-used", b["cpu_used"],
                       "-b:v", "0", "-pix_fmt", "yuv420p">>
                ELSE <<call.ffmpeg_path, "-i", call.input_file,
                       "-vf", "scale=" \o b["max_width_webp"] \o ":-2:flags="
                              \o b["scale_filter_webp"],
                       "-r", b["frame_rate_webp"], "-c:v", "libwebp",
                       "-quality", b["output_quality_webp"],
                       "-compression_level", b["compression_level"],
                       "-preset", b["preset"]>>
    IN /\ call.first_pass = head \o <<"-pass", "1", "-f", "null", "-">>
       /\ call.second_pass = head \o <<"-pass", "2", "-loop", "0", call.output_file>>

C6_Witness ==
  conv_state = "Idle" /\ call.format_type = "AVIF" /\ call.params["crf"] = "63"
  /\ call.first_pass[11] = "63"

\* the bundles that agree with b outside keys; inside keys every field takes
\* its default or its other value
Variants(b, keys) ==
  {[k \in VariableKeys |->
      IF k \notin keys THEN b[k]
      ELSE IF k \in S THEN defaults[k]
      ELSE OtherValue(k)] : S \in SUBSET keys}

\* C7: the token lists of an AVIF conversion do not depend on any WebP field
\* of the bundle, and those of a WebP conversion on no AVIF field.
C7_InactiveFieldsNotRead ==
  conv_state = "Idle" =>
    \A c \in Variants(call.params,
                       IF call.format_type = "AVIF" THEN WebpKeys ELSE AvifKeys) :
      /\ first_pass(call.input_file, call.format_type, c, call.ffmpeg_path)
         = call.first_pass
      /\ second_pass(call.input_file, call.output_file, call.format_type, c,
                     call.ffmpeg_path) = call.second_pass

C7_Witness ==
  conv_state = "Idle" /\ call.format_type = "AVIF"
  /\ call.params["scale_filter_webp"] # call.params["scale_filter_avif"]

Allowed ==
  {<<"NoCall", "Idle">>, <<"Idle", "Pass1Running">>,
   <<"Pass1Running", "Pass1Failed">>, <<"Pass1Running", "Pass2Running">>,
   <<"Pass2Running", "Pass2Failed">>, <<"Pass2Running", "Succeeded">>}

\* C8: a call moves only along Idle, Pass1Running, Pass1Failed or
\* Pass2Running, Pass2Failed or Succeeded; a terminal state is left only by
\* the call's return; each pass is launched at most once and at most two
\* processes are spawned.
C8_StateMachine ==
  /\ [][/\ conv_state' # conv_state =>
             \/ <<conv_state, conv_state'>> \in Allowed
             \/ conv_state \in Terminal /\ conv_state' = "NoCall" /\ rc_pc' = "ready"
        /\ launched'[1] >= launched[1] => launched'[1] <= 1
        /\ (conv_state \in Terminal /\ conv_state' = conv_state) => launched' = launched]_vars
  /\ [](/\ launched[1] <= 1 /\ launched[2] <= 1
        /\ spawned <= launched[1] + launched[2]
        /\ launched[1] = (IF conv_state \in {"NoCall", "Idle"} THEN 0 ELSE 1)
        /\ launched[2] = (IF conv_state \in {"Pass2Running", "Pass2Failed", "Succeeded"}
                          THEN 1 ELSE 0))

C8_Witness ==
  conv_state = "Succeeded" /\ launched[1] = 1 /\ launched[2] = 1 /\ spawned = 2

\* C9: a call ends with exactly one outcome: True with the success dialogue
\* if and only if both passes were launched and both exited 0; otherwise
\* False with one error dialogue, which for a launch error that is neither a
\* non-zero exit nor executable-not-found is Unknown Error with its text.
C9_ExactlyOneOutcome ==
  /\ conv_state \in Terminal =>
       /\ Len(dialogs) = 1
       /\ ret \in {"True", "False"}
       /\ ret = "True" <=> (launched[1] = 1 /\ launched[2] = 1
                            /\ ExitedZero(result[1]) /\ ExitedZero(result[2]))
       /\ ret = "True" <=> conv_state = "Succeeded"
       /\ ret = "True" =>
            dialogs[1] = [box |-> "showinfo", title |-> "Success",
                          message |-> "Successfully converted clip.mp4 to "
                                      \o PathName(call.output_file)]
       /\ ret = "False" => dialogs[1].box = "showerror"
       /\ \A p \in {1, 2} : result[p].status = "oserror" =>
            dialogs[1] = [box |-> "showerror", title |-> "Unknown Error",
                          message |-> "An unexpected error occurred: " \o result[p].text]
  /\ conv_state \in {"Idle", "Pass1Running", "Pass2Running"} =>
       (ret = "None" /\ dialogs = <<>>)
  /\ \A p \in {1, 2} : (result[p].status \in {"oserror", "notfound"} \/ ExitedNonZero(result[p]))
       => conv_state \in {"Pass1Failed", "Pass2Failed"}

C9_Witness ==
  conv_state = "Pass2Failed" /\ result[2].status = "oserror"
  /\ ResultKind(dialogs[1]) = "UnexpectedError"

\* C10: run_conversion writes the form to the settings store once, as its
\* first step, before validating and before any launch; the settings stay
\* saved when validation fails (no process is spawned then) or the conversion
\* fails; the input video path is never copied into the saved settings.
C10_SettingsSavedFirst ==
  /\ [][/\ (rc_pc = "ready" /\ rc_pc' \notin {"ready", "direct"}) =>
             (saves' = 1 /\ ini' = settings'
              /\ \A k \in VariableKeys \ {"input_video_path"} : ini'[k] = variables[k])
        /\ saves' # saves =>
             \/ rc_pc = "ready" /\ rc_pc' = "check_ffmpeg" /\ saves' = 1
                /\ dialogs' = <<>> /\ spawned' = 0 /\ launched' = [p \in {1, 2} |-> 0]
             \/ rc_pc' = "ready" /\ saves' = 0
        /\ (rc_pc # "ready" /\ rc_pc' # "ready") => UNCHANGED <<ini, settings, variables>>]_vars
  /\ [](/\ rc_pc \notin {"ready", "direct"} =>
             /\ saves = 1
             /\ ini = settings
             /\ \A k \in VariableKeys \ {"input_video_path"} : ini[k] = variables[k]
        /\ rc_pc = "return" => (spawned = 0 /\ launched = [p \in {1, 2} |-> 0])
        /\ "input_video_path" \notin DOMAIN settings
        /\ "input_video_path" \notin DOMAIN ini)

====
